---- MODULE Spec2Model ----
(***************************************************************************)
(* A model of art-loader.py: the Painting class (select_biggest_image,     *)
(* iri2uri, download_image, label_image, save_image, load_label_save) and  *)
(* main().  Strings that the program takes apart (links, URIs) are         *)
(* sequences of one-character strings; artist and title are opaque.        *)
(***************************************************************************)
EXTENDS Integers, Sequences, FiniteSets, TLC

VARIABLES
    pc,            \* position of main(): the statement about to run
    i,             \* the page index of "for i in range(1, NUM_OF_PAGES + 1)"
    data,          \* data['Paintings'] of the page being walked
    j,             \* position of "for painting_data in data['Paintings']"
    painting,      \* the current Painting object (artist, title, width, ...)
    folder,        \* FOLDER_NAME on disk: [exists, files]
    archive,       \* LABELED_PAINTINGS.zip made by this run: [exists, files]
    failure,       \* the exception that ended the run, "none" while running
    fetched,       \* history: the page indices whose listing was fetched
    nListed,       \* history: entries listed by the pages fetched so far
    nConstructed,  \* history: Painting objects constructed
    nDownloaded,   \* history: download_image calls that returned
    nLabeled,      \* history: label_image calls that returned
    nSaved,        \* history: save_image calls that returned
    wrote,         \* history: image links whose cv2.imwrite succeeded
    dropped,       \* history: some cv2.imwrite returned False
    arg,           \* the argument of the function under test
    ret,           \* its result
    fpc            \* "idle", "call" (argument chosen) or "ret" (applied)

vars == <<pc, i, data, j, painting, folder, archive, failure, fetched, nListed,
          nConstructed, nDownloaded, nLabeled, nSaved, wrote, dropped,
          arg, ret, fpc>>

mainVars == <<pc, i, data, j, painting, folder, archive, failure, fetched,
              nListed, nConstructed, nDownloaded, nLabeled, nSaved, wrote,
              dropped>>

funVars == <<arg, ret, fpc>>

(***************************************************************************)
(* Program constants and model bounds                                      *)
(***************************************************************************)
NUM_OF_PAGES == 10

\* the most entries one page listing holds in the model
MaxPerPage == 2

\* widths and heights of the default image and of its variants range over 1..MaxDim
MaxDim == 2

\* the most alternative images of one entry
MaxVariants == 3

\* the longest URI given to iri2uri
MaxUriLen == 4

\* listed and decoded heights given to label_image range over 1..MaxHeight
MaxHeight == 30

(***************************************************************************)
(* Values                                                                  *)
(***************************************************************************)
\* painting_data['images']: JSON null, a list, or the key missing altogether
NoneImages == [kind |-> "none", items |-> <<>>]

MissingImages == [kind |-> "missing", items |-> <<>>]

ListImages(s) == [kind |-> "list", items |-> s]

\* self.image = None
NoImage ==
    [present |-> FALSE, width |-> 0, height |-> 0, left |-> 0, top |-> 0,
     labels |-> <<>>]

\* a decoded w x h pixel buffer; left and top are where the decoded picture's
\* origin lies in the buffer, labels the texts drawn on it
Image(w, h) ==
    [present |-> TRUE, width |-> w, height |-> h, left |-> 0, top |-> 0,
     labels |-> <<>>]

NoPainting ==
    [artist |-> "", title |-> "", width |-> 0, height |-> 0,
     image_link |-> <<>>, image |-> NoImage]

Ok(v) == [err |-> "none", val |-> v]

Err(e) == [err |-> e, val |-> <<>>]

(***************************************************************************)
(* Painting.select_biggest_image                                           *)
(***************************************************************************)
Area(image) == image.width * image.height

\* the body of "for image in painting_data['images']", from position k on;
\* cand is the (width, height, image_link) selected so far
RECURSIVE ScanImages(_, _, _)
ScanImages(images, k, cand) ==
    IF k > Len(images) THEN cand
    ELSE LET image == images[k]
         IN  ScanImages(images, k + 1,
                 IF image.width * image.height > cand[1] * cand[2]
                 THEN <<image.width, image.height, image.image>>
                 ELSE cand)

\* the same loop with >= for >: a later image of equal area replaces the candidate
RECURSIVE ScanImagesGe(_, _, _)
ScanImagesGe(images, k, cand) ==
    IF k > Len(images) THEN cand
    ELSE LET image == images[k]
         IN  ScanImagesGe(images, k + 1,
                 IF image.width * image.height >= cand[1] * cand[2]
                 THEN <<image.width, image.height, image.image>>
                 ELSE cand)

select_biggest_image_ge(painting_data) ==
    LET default == <<painting_data.width, painting_data.height, painting_data.image>>
    IN  IF painting_data.images.kind = "missing" THEN Err("KeyError")
        ELSE IF painting_data.images.kind # "none"
             THEN Ok(ScanImagesGe(painting_data.images.items, 1, default))
             ELSE Ok(default)

\* the same function without "is not None": iterating over None is a TypeError
select_biggest_image_nocheck(painting_data) ==
    LET default == <<painting_data.width, painting_data.height, painting_data.image>>
    IN  IF painting_data.images.kind = "missing" THEN Err("KeyError")
        ELSE IF painting_data.images.kind = "none" THEN Err("TypeError")
             ELSE Ok(ScanImages(painting_data.images.items, 1, default))

\* painting_data['images'] with the key missing raises KeyError (line 41)
select_biggest_image(painting_data) ==
    LET default == <<painting_data.width, painting_data.height, painting_data.image>>
    IN  IF painting_data.images.kind = "missing" THEN Err("KeyError")
        ELSE IF painting_data.images.kind # "none"
             THEN Ok(ScanImages(painting_data.images.items, 1, default))
             ELSE Ok(default)

(***************************************************************************)
(* Strings                                                                 *)
(***************************************************************************)
\* str.find(c) from position start on, 1-based; 0 when c does not occur
Find(s, c, start) ==
    LET ks == {k \in start..Len(s) : s[k] = c}
    IN  IF ks = {} THEN 0 ELSE CHOOSE k \in ks : \A m \in ks : k <= m

\* s[k:] with k 1-based
From(s, k) == SubSeq(s, k, Len(s))

\* str.split(sep) for a one-character sep
RECURSIVE Split(_, _)
Split(s, sep) ==
    LET k == Find(s, sep, 1)
    IN  IF k = 0 THEN <<s>>
        ELSE <<SubSeq(s, 1, k - 1)>> \o Split(From(s, k + 1), sep)

LOWERCASE ==
    <<"a", "b", "c", "d", "e", "f", "g", "h", "i", "j", "k", "l", "m",
      "n", "o", "p", "q", "r", "s", "t", "u", "v", "w", "x", "y", "z">>

UPPERCASE ==
    <<"A", "B", "C", "D", "E", "F", "G", "H", "I", "J", "K", "L", "M",
      "N", "O", "P", "Q", "R", "S", "T", "U", "V", "W", "X", "Y", "Z">>

DIGITS == <<"0", "1", "2", "3", "4", "5", "6", "7", "8", "9">>

Range(f) == {f[k] : k \in DOMAIN f}

IsAlpha(c) == c \in Range(LOWERCASE) \cup Range(UPPERCASE)

\* str.lower()
Lower(s) ==
    [k \in 1..Len(s) |->
        IF s[k] \in Range(UPPERCASE)
        THEN LOWERCASE[CHOOSE n \in 1..26 : UPPERCASE[n] = s[k]]
        ELSE s[k]]

\* ord() of the punctuation of the model's URIs
Ord(c) ==
    CASE c = " " -> 32
      [] c = "#" -> 35
      [] c = "%" -> 37
      [] c = "&" -> 38
      [] c = ":" -> 58
      [] c = "=" -> 61
      [] c = "?" -> 63

HEXDIGITS ==
    <<"0", "1", "2", "3", "4", "5", "6", "7", "8", "9", "A", "B", "C", "D", "E", "F">>

\* '%{:02X}'.format(b)
PercentEncoded(c) ==
    <<"%", HEXDIGITS[(Ord(c) \div 16) + 1], HEXDIGITS[(Ord(c) % 16) + 1]>>

(***************************************************************************)
(* urllib.parse as Painting.iri2uri calls it                               *)
(***************************************************************************)
scheme_chars ==
    Range(LOWERCASE) \cup Range(UPPERCASE) \cup Range(DIGITS) \cup {"+", "-", "."}

ALWAYS_SAFE ==
    Range(LOWERCASE) \cup Range(UPPERCASE) \cup Range(DIGITS) \cup {"_", ".", "-", "~"}

uses_netloc ==
    {<<"f", "t", "p">>, <<"h", "t", "t", "p">>,
     <<"g", "o", "p", "h", "e", "r">>, <<"n", "n", "t", "p">>,
     <<"t", "e", "l", "n", "e", "t">>, <<"i", "m", "a", "p">>,
     <<"w", "a", "i", "s">>, <<"f", "i", "l", "e">>, <<"m", "m", "s">>,
     <<"h", "t", "t", "p", "s">>, <<"s", "h", "t", "t", "p">>,
     <<"s", "n", "e", "w", "s">>,
     <<"p", "r", "o", "s", "p", "e", "r", "o">>, <<"r", "t", "s", "p">>,
     <<"r", "t", "s", "p", "s">>, <<"r", "t", "s", "p", "u">>,
     <<"r", "s", "y", "n", "c">>, <<"s", "v", "n">>,
     <<"s", "v", "n", "+", "s", "s", "h">>, <<"s", "f", "t", "p">>,
     <<"n", "f", "s">>, <<"g", "i", "t">>,
     <<"g", "i", "t", "+", "s", "s", "h">>, <<"w", "s">>,
     <<"w", "s", "s">>}

\* quote(s) with the default safe='/': every character outside the always-safe
\* set and '/' becomes %XX, '%' itself included
RECURSIVE quote(_)
quote(s) ==
    IF s = <<>> THEN <<>>
    ELSE (IF Head(s) \in ALWAYS_SAFE \cup {"/"}
          THEN <<Head(s)>>
          ELSE PercentEncoded(Head(s))) \o quote(Tail(s))

\* _splitnetloc(url, 2): the netloc runs to the first of '/', '?', '#'
splitnetloc(url) ==
    LET ds    == {k \in 3..Len(url) : url[k] \in {"/", "?", "#"}}
        delim == IF ds = {} THEN Len(url) + 1
                 ELSE CHOOSE k \in ds : \A m \in ds : k <= m
    IN  <<SubSeq(url, 3, delim - 1), From(url, delim)>>

\* urlsplit(url): (scheme, netloc, path, query, fragment).  The model's URIs
\* hold no whitespace, control characters or brackets, so the stripping and
\* the IPv6 checks of urlsplit do not apply to them.
urlsplit(url) ==
    LET c         == Find(url, ":", 1)
        hasScheme == /\ c > 1
                     /\ IsAlpha(url[1])
                     /\ \A m \in 1..(c - 1) : url[m] \in scheme_chars
        scheme    == IF hasScheme THEN Lower(SubSeq(url, 1, c - 1)) ELSE <<>>
        url1      == IF hasScheme THEN From(url, c + 1) ELSE url
        hasNetloc == Len(url1) >= 2 /\ url1[1] = "/" /\ url1[2] = "/"
        netloc    == IF hasNetloc THEN splitnetloc(url1)[1] ELSE <<>>
        url2      == IF hasNetloc THEN splitnetloc(url1)[2] ELSE url1
        h         == Find(url2, "#", 1)
        fragment  == IF h > 0 THEN From(url2, h + 1) ELSE <<>>
        url3      == IF h > 0 THEN SubSeq(url2, 1, h - 1) ELSE url2
        q         == Find(url3, "?", 1)
        query     == IF q > 0 THEN From(url3, q + 1) ELSE <<>>
        path      == IF q > 0 THEN SubSeq(url3, 1, q - 1) ELSE url3
    IN  <<scheme, netloc, path, query, fragment>>

urlunsplit(parts) ==
    LET scheme   == parts[1]
        netloc   == parts[2]
        url      == parts[3]
        query    == parts[4]
        fragment == parts[5]
        url1 == IF \/ netloc # <<>>
                   \/ /\ scheme # <<>>
                      /\ scheme \in uses_netloc
                      /\ ~(Len(url) >= 2 /\ url[1] = "/" /\ url[2] = "/")
                THEN <<"/", "/">> \o netloc \o
                     (IF url # <<>> /\ url[1] # "/" THEN <<"/">> \o url ELSE url)
                ELSE url
        url2 == IF scheme # <<>> THEN scheme \o <<":">> \o url1 ELSE url1
        url3 == IF query # <<>> THEN url2 \o <<"?">> \o query ELSE url2
    IN  IF fragment # <<>> THEN url3 \o <<"#">> \o fragment ELSE url3

\* netloc.encode('idna').decode('utf-8'): the codec returns an all-ASCII name
\* as it is once every label but the last is non-empty and none has 64
\* characters or more; the model's netlocs are ASCII, have no '.', and are short
idna(netloc) == netloc

\* a Python value handed to iri2uri: a str or something else
Str(s) == [isstr |-> TRUE, chars |-> s]

NotStr == [isstr |-> FALSE, chars |-> <<>>]

iri2uri(iri) ==
    IF iri.isstr
    THEN LET parts == urlsplit(iri.chars)
         IN  urlunsplit(<<quote(parts[1]), idna(parts[2]), quote(parts[3]),
                          quote(parts[4]), quote(parts[5])>>)
    ELSE <<>>

(***************************************************************************)
(* Painting: the constructor, label_image, save_image                      *)
(***************************************************************************)
\* Painting(painting_data), lines 23-27
Painting(painting_data) ==
    LET sel == select_biggest_image(painting_data)
    IN  IF sel.err # "none" THEN Err(sel.err)
        ELSE Ok([artist     |-> painting_data.artistName,
                 title      |-> painting_data.title,
                 width      |-> sel.val[1],
                 height     |-> sel.val[2],
                 image_link |-> sel.val[3],
                 image      |-> NoImage])

\* cv2.copyMakeBorder(src, top, bottom, left, right, BORDER_CONSTANT)
copyMakeBorder(src, top, bottom, left, right) ==
    [src EXCEPT !.width  = @ + left + right,
                !.height = @ + top + bottom,
                !.left   = @ + left,
                !.top    = @ + top]

\* cv2.putText(img, text, org, font, scale, ...): scale800 is 800 * font_scale
putText(img, text, org, scale800) ==
    [img EXCEPT !.labels =
        Append(@, [text |-> text, x |-> org[1], y |-> org[2], scale800 |-> scale800])]

Min(a, b) == IF a <= b THEN a ELSE b

\* padding rounded to the nearest pixel instead of truncated
padding_height_round(height) == ((12 * height) + 50) \div 100

\* int(0.12 * self.height) for self.height > 0: the double product truncates
\* to floor(12 * height / 100) for every height up to 200000
padding_height(height) == (12 * height) \div 100

\* label_image on a Painting object: the object with its image replaced, or
\* the cv2.error that copyMakeBorder raises for self.image = None
label_image(self) ==
    IF ~self.image.present THEN Err("cv2.error")
    ELSE LET new_img == copyMakeBorder(self.image, 0, padding_height(self.height), 0, 0)
             painter_position == <<10, (105 * self.height) \div 100>>
             title_position   == <<10, (110 * self.height) \div 100>>
             scale800         == Min(self.width, self.height)
         IN  Ok([self EXCEPT !.image =
                     putText(putText(new_img, self.artist, painter_position, scale800),
                             self.title, title_position, scale800)])

\* self.image_link.split('/')[-1]
save_name(image_link) ==
    LET parts == Split(image_link, "/") IN parts[Len(parts)]

\* the folder after cv2.imwrite(f'{FOLDER_NAME}/{save_name}', image) succeeded:
\* a file of that name is replaced
imwrite(files, name, image) ==
    {f \in files : f.name # name} \cup {[name |-> name, image |-> image]}

(***************************************************************************)
(* The listings the remote site may return                                 *)
(***************************************************************************)
Variant(w, h, link) == [width |-> w, height |-> h, image |-> link]

Catalog ==
    {[artistName |-> "A", title |-> "T1", width |-> 40, height |-> 25,
      image |-> <<"x", "/", "a">>, images |-> NoneImages],
     [artistName |-> "B", title |-> "T2", width |-> 20, height |-> 50,
      image |-> <<"y", "/", "a">>, images |-> ListImages(<<>>)],
     [artistName |-> "C", title |-> "T3", width |-> 10, height |-> 10,
      image |-> <<"x", "/", "b">>,
      images |-> ListImages(<<Variant(20, 30, <<"z", "/", "b">>)>>)],
     [artistName |-> "D", title |-> "T4", width |-> 10, height |-> 10,
      image |-> <<"x", "/", "c">>, images |-> MissingImages]}

RECURSIVE SeqsUpTo(_, _)
SeqsUpTo(S, n) ==
    IF n = 0 THEN {<<>>}
    ELSE LET shorter == SeqsUpTo(S, n - 1)
         IN  shorter \cup {Append(s, x) : s \in shorter, x \in S}

Listings == SeqsUpTo(Catalog, MaxPerPage)

\* the size of the picture the image server sends for a painting listed as
\* width x height: in runs of main() the listed size (label_image on pictures
\* of every other size is exercised under SpecLabel)
DecodedSizes(self) == {<<self.width, self.height>>}

(***************************************************************************)
(* main()                                                                  *)
(***************************************************************************)
NoFolder == [exists |-> FALSE, files |-> {}]

\* an exception leaves main(): nothing catches it, nothing is cleaned up
RaiseAndCleanUp(cause) ==
    /\ pc' = "aborted"
    /\ failure' = cause
    /\ folder' = NoFolder

RaiseAndContinue(cause) ==
    /\ pc' = "for_painting"
    /\ failure' = cause
    /\ folder' = folder

Raise(cause) ==
    /\ pc' = "aborted"
    /\ failure' = cause
    /\ folder' = folder

Init ==
    /\ pc = "mkdir"
    /\ i = 0
    /\ data = <<>>
    /\ j = 0
    /\ painting = NoPainting
    /\ folder = NoFolder
    /\ archive = NoFolder
    /\ failure = "none"
    /\ fetched = <<>>
    /\ nListed = 0
    /\ nConstructed = 0
    /\ nDownloaded = 0
    /\ nLabeled = 0
    /\ nSaved = 0
    /\ wrote = {}
    /\ dropped = FALSE
    /\ arg = NotStr
    /\ ret = <<>>
    /\ fpc = "idle"

\* os.mkdir(FOLDER_NAME), line 154
Mkdir ==
    /\ pc = "mkdir"
    /\ \/ /\ folder' = [exists |-> TRUE, files |-> {}]
          /\ pc' = "for_page"
          /\ failure' = failure
       \/ Raise("mkdir")
    /\ UNCHANGED <<i, data, j, painting, archive, fetched, nListed, nConstructed,
                   nDownloaded, nLabeled, nSaved, wrote, dropped, funVars>>

\* one page too few: range(1, NUM_OF_PAGES)
ForPageOffByOne ==
    /\ pc = "for_page"
    /\ IF i < NUM_OF_PAGES - 1
       THEN i' = i + 1 /\ pc' = "fetch_page"
       ELSE i' = i /\ pc' = "make_archive"
    /\ UNCHANGED <<data, j, painting, folder, archive, failure, fetched, nListed,
                   nConstructed, nDownloaded, nLabeled, nSaved, wrote, dropped,
                   funVars>>

\* for i in range(1, NUM_OF_PAGES + 1), line 157
ForPage ==
    /\ pc = "for_page"
    /\ IF i < NUM_OF_PAGES
       THEN i' = i + 1 /\ pc' = "fetch_page"
       ELSE i' = i /\ pc' = "make_archive"
    /\ UNCHANGED <<data, j, painting, folder, archive, failure, fetched, nListed,
                   nConstructed, nDownloaded, nLabeled, nSaved, wrote, dropped,
                   funVars>>

\* urlopen(LINK.format(i)) and json.loads(...), lines 160-161
FetchPage ==
    /\ pc = "fetch_page"
    /\ \/ \E listing \in Listings :
             /\ data' = listing
             /\ j' = 0
             /\ fetched' = Append(fetched, i)
             /\ nListed' = nListed + Len(listing)
             /\ pc' = "for_painting"
             /\ UNCHANGED <<failure, folder>>
       \/ /\ \E cause \in {"urlopen_page", "json"} : Raise(cause)
          /\ UNCHANGED <<data, j, fetched, nListed>>
    /\ UNCHANGED <<i, painting, archive, nConstructed, nDownloaded, nLabeled,
                   nSaved, wrote, dropped, funVars>>

\* the loop left after its first entry
ForPaintingFirstOnly ==
    /\ pc = "for_painting"
    /\ IF j < Len(data) /\ j < 1
       THEN j' = j + 1 /\ pc' = "construct"
       ELSE j' = j /\ pc' = "for_page"
    /\ UNCHANGED <<i, data, painting, folder, archive, failure, fetched, nListed,
                   nConstructed, nDownloaded, nLabeled, nSaved, wrote, dropped,
                   funVars>>

\* for painting_data in data['Paintings'], line 164
ForPainting ==
    /\ pc = "for_painting"
    /\ IF j < Len(data)
       THEN j' = j + 1 /\ pc' = "construct"
       ELSE j' = j /\ pc' = "for_page"
    /\ UNCHANGED <<i, data, painting, folder, archive, failure, fetched, nListed,
                   nConstructed, nDownloaded, nLabeled, nSaved, wrote, dropped,
                   funVars>>

\* painting = Painting(painting_data), line 167
Construct ==
    /\ pc = "construct"
    /\ LET made == Painting(data[j])
       IN  IF made.err = "none"
           THEN /\ painting' = made.val
                /\ nConstructed' = nConstructed + 1
                /\ pc' = "download"
                /\ UNCHANGED <<failure, folder>>
           ELSE /\ Raise(made.err)
                /\ UNCHANGED <<painting, nConstructed>>
    /\ UNCHANGED <<i, data, j, archive, fetched, nListed, nDownloaded, nLabeled,
                   nSaved, wrote, dropped, funVars>>

\* download_image, lines 79-92: urlopen or read raises; imdecode raises on an
\* empty body; imdecode returns None for bytes that are no image; or it
\* returns the decoded picture
DownloadImage ==
    /\ pc = "download"
    /\ \/ /\ \E size \in DecodedSizes(painting) :
                painting' = [painting EXCEPT !.image = Image(size[1], size[2])]
          /\ nDownloaded' = nDownloaded + 1
          /\ pc' = "label"
          /\ UNCHANGED <<failure, folder>>
       \/ /\ painting' = [painting EXCEPT !.image = NoImage]
          /\ nDownloaded' = nDownloaded + 1
          /\ pc' = "label"
          /\ UNCHANGED <<failure, folder>>
       \/ /\ \E cause \in {"urlopen_image", "imdecode"} : Raise(cause)
          /\ UNCHANGED <<painting, nDownloaded>>
    /\ UNCHANGED <<i, data, j, archive, fetched, nListed, nConstructed, nLabeled,
                   nSaved, wrote, dropped, funVars>>

\* label_image, lines 94-128
LabelImage ==
    /\ pc = "label"
    /\ LET labeled == label_image(painting)
       IN  IF labeled.err = "none"
           THEN /\ painting' = labeled.val
                /\ nLabeled' = nLabeled + 1
                /\ pc' = "save"
                /\ UNCHANGED <<failure, folder>>
           ELSE /\ Raise("label")
                /\ UNCHANGED <<painting, nLabeled>>
    /\ UNCHANGED <<i, data, j, archive, fetched, nListed, nConstructed,
                   nDownloaded, nSaved, wrote, dropped, funVars>>

\* save_image, lines 130-139: cv2.imwrite writes the file, or returns False
\* (the result is not looked at), or raises
SaveImage ==
    /\ pc = "save"
    /\ \/ /\ folder' = [folder EXCEPT !.files =
                           imwrite(@, save_name(painting.image_link), painting.image)]
          /\ wrote' = wrote \cup {painting.image_link}
          /\ nSaved' = nSaved + 1
          /\ pc' = "for_painting"
          /\ UNCHANGED <<failure, dropped>>
       \/ /\ dropped' = TRUE
          /\ nSaved' = nSaved + 1
          /\ pc' = "for_painting"
          /\ UNCHANGED <<failure, folder, wrote>>
       \/ /\ Raise("imwrite")
          /\ UNCHANGED <<wrote, nSaved, dropped>>
    /\ UNCHANGED <<i, data, j, painting, archive, fetched, nListed, nConstructed,
                   nDownloaded, nLabeled, funVars>>

\* shutil.make_archive('LABELED_PAINTINGS', 'zip', FOLDER_NAME), line 171
MakeArchive ==
    /\ pc = "make_archive"
    /\ \/ /\ archive' = [exists |-> TRUE, files |-> folder.files]
          /\ pc' = "rmtree"
          /\ UNCHANGED <<failure, folder>>
       \/ /\ Raise("make_archive")
          /\ archive' = archive
    /\ UNCHANGED <<i, data, j, painting, fetched, nListed, nConstructed,
                   nDownloaded, nLabeled, nSaved, wrote, dropped, funVars>>

\* shutil.rmtree(FOLDER_NAME), line 174; a failing rmtree may have removed
\* some of the files
Rmtree ==
    /\ pc = "rmtree"
    /\ \/ /\ folder' = NoFolder
          /\ pc' = "done"
          /\ failure' = failure
       \/ /\ \E left \in SUBSET folder.files : folder' = [folder EXCEPT !.files = left]
          /\ pc' = "aborted"
          /\ failure' = "rmtree"
    /\ UNCHANGED <<i, data, j, painting, archive, fetched, nListed, nConstructed,
                   nDownloaded, nLabeled, nSaved, wrote, dropped, funVars>>

Next ==
    \/ Mkdir
    \/ ForPage
    \/ FetchPage
    \/ ForPainting
    \/ Construct
    \/ DownloadImage
    \/ LabelImage
    \/ SaveImage
    \/ MakeArchive
    \/ Rmtree

Spec == Init /\ [][Next]_vars

(***************************************************************************)
(* select_biggest_image on its own: every entry within the bounds          *)
(***************************************************************************)
NoResult == [err |-> "unset", val |-> <<>>]

MainIdle ==
    /\ pc = "idle"
    /\ i = 0
    /\ data = <<>>
    /\ j = 0
    /\ painting = NoPainting
    /\ folder = NoFolder
    /\ archive = NoFolder
    /\ failure = "none"
    /\ fetched = <<>>
    /\ nListed = 0
    /\ nConstructed = 0
    /\ nDownloaded = 0
    /\ nLabeled = 0
    /\ nSaved = 0
    /\ wrote = {}
    /\ dropped = FALSE

Dims == 1..MaxDim

\* the link of the k-th alternative image: "v1", "v2", ...
VariantLink(k) == <<"v", DIGITS[k + 1]>>

VariantLists ==
    UNION {{[k \in 1..n |-> Variant(w[k], h[k], VariantLink(k))] :
               w \in [1..n -> Dims], h \in [1..n -> Dims]} : n \in 0..MaxVariants}

SelectInputs ==
    {[artistName |-> "A", title |-> "T", width |-> w, height |-> h,
      image |-> <<"d">>, images |-> im] :
        w \in Dims, h \in Dims,
        im \in {NoneImages, MissingImages} \cup {ListImages(l) : l \in VariantLists}}

InitSelect ==
    /\ MainIdle
    /\ arg \in SelectInputs
    /\ ret = NoResult
    /\ fpc = "call"

CallSelect ==
    /\ fpc = "call"
    /\ ret' = select_biggest_image(arg)
    /\ fpc' = "ret"
    /\ UNCHANGED <<arg, mainVars>>

NextSelect == CallSelect

SpecSelect == InitSelect /\ [][NextSelect]_vars

(***************************************************************************)
(* iri2uri on its own: every URI over UriChars up to MaxUriLen, applied    *)
(* once and then again to its own result                                   *)
(***************************************************************************)
UriChars == {"a", "/", ":", "?", "#", "%", "="}

InitUri ==
    /\ MainIdle
    /\ arg \in {Str(u) : u \in SeqsUpTo(UriChars, MaxUriLen)} \cup {NotStr}
    /\ ret = <<>>
    /\ fpc = "call"

CallIri2uri ==
    /\ fpc = "call"
    /\ ret' = <<iri2uri(arg)>>
    /\ fpc' = "once"
    /\ UNCHANGED <<arg, mainVars>>

CallIri2uriAgain ==
    /\ fpc = "once"
    /\ ret' = Append(ret, iri2uri(Str(ret[1])))
    /\ fpc' = "twice"
    /\ UNCHANGED <<arg, mainVars>>

NextUri == CallIri2uri \/ CallIri2uriAgain

SpecUri == InitUri /\ [][NextUri]_vars

(***************************************************************************)
(* label_image on its own: every listed height and every decoded picture   *)
(* within the bounds                                                       *)
(***************************************************************************)
LabelWidths == {1, 2}

LabelInputs ==
    {[artist |-> "A", title |-> "T", width |-> w, height |-> h,
      image_link |-> <<"d">>, image |-> im] :
        w \in LabelWidths, h \in 1..MaxHeight,
        im \in {NoImage} \cup {Image(iw, ih) : iw \in LabelWidths, ih \in 1..MaxHeight}}

InitLabel ==
    /\ MainIdle
    /\ arg \in LabelInputs
    /\ ret = NoResult
    /\ fpc = "call"

CallLabel ==
    /\ fpc = "call"
    /\ ret' = label_image(arg)
    /\ fpc' = "ret"
    /\ UNCHANGED <<arg, mainVars>>

NextLabel == CallLabel

SpecLabel == InitLabel /\ [][NextLabel]_vars

(***************************************************************************)
(* Claims about select_biggest_image (under SpecSelect)                    *)
(***************************************************************************)
DefaultOf(painting_data) ==
    <<painting_data.width, painting_data.height, painting_data.image>>

TripleOf(image) == <<image.width, image.height, image.image>>

\* the positions of the alternative images whose area exceeds the default's
Bigger(painting_data) ==
    {k \in DOMAIN painting_data.images.items :
        Area(painting_data.images.items[k]) > painting_data.width * painting_data.height}

\* the first position, in listing order, of an alternative image of maximal area
FirstMaximal(items) ==
    CHOOSE k \in DOMAIN items :
        /\ \A m \in DOMAIN items : Area(items[m]) <= Area(items[k])
        /\ \A m \in 1..(k - 1) : Area(items[m]) < Area(items[k])

\* C2: when some alternative image has strictly greater area than the default,
\* select_biggest_image returns the (width, height, image) of the first
\* alternative image of maximal area, in listing order; when none has, an
\* alternative image of the default's area included, it returns the default.
C2_SelectsFirstMaximalVariant ==
    (fpc = "ret" /\ arg.images.kind = "list") =>
        IF Bigger(arg) # {}
        THEN ret = Ok(TripleOf(arg.images.items[FirstMaximal(arg.images.items)]))
        ELSE ret = Ok(DefaultOf(arg))

\* an entry with two alternative images tied for the maximal area, above the
\* default's, after a third of the default's own area: the first of the two is returned
C2_Witness ==
    /\ fpc = "ret"
    /\ arg.images.kind = "list"
    /\ Len(arg.images.items) = 3
    /\ Area(arg.images.items[1]) = arg.width * arg.height
    /\ Area(arg.images.items[2]) > arg.width * arg.height
    /\ Area(arg.images.items[3]) = Area(arg.images.items[2])
    /\ arg.images.items[3].width # arg.images.items[2].width
    /\ ret = Ok(TripleOf(arg.images.items[2]))

C7_Idempotent ==
    (fpc = "twice" /\ arg.isstr) => ret[2] = ret[1]

(***************************************************************************)
(* Claims about label_image (under SpecLabel)                              *)
(***************************************************************************)
\* floor(0.12 * h) for h >= 0, by its defining inequalities
Floor12Percent(h) ==
    CHOOSE p \in 0..h : 100 * p <= 12 * h /\ 12 * h < 100 * (p + 1)

\* C8 as stated: the labeled image is as wide as the image given, its height
\* is inputHeight + floor(0.12 * inputHeight) for the height of the image
\* given, and nothing is added at the top or the left.
C8_PaddingFromImageHeight ==
    (fpc = "ret" /\ arg.height > 0 /\ ret.err = "none") =>
        /\ ret.val.image.width = arg.image.width
        /\ ret.val.image.height
             = arg.image.height + Floor12Percent(arg.image.height)
        /\ ret.val.image.left = 0
        /\ ret.val.image.top = 0

\* C8 as amended: the padding is floor(0.12 * self.height), the height the
\* listing gave for the selected image, added below the image given.
C8_PaddingFromListedHeight ==
    (fpc = "ret" /\ arg.height > 0 /\ ret.err = "none") =>
        /\ ret.val.image.width = arg.image.width
        /\ ret.val.image.height = arg.image.height + Floor12Percent(arg.height)
        /\ ret.val.image.left = 0
        /\ ret.val.image.top = 0

\* a picture whose height is not the listed one has been labeled, with padding
C8_Witness ==
    /\ fpc = "ret"
    /\ ret.err = "none"
    /\ arg.image.height # arg.height
    /\ ret.val.image.height > arg.image.height
    /\ Len(ret.val.image.labels) = 2

(***************************************************************************)
(* Claims about main() (under Spec)                                        *)
(***************************************************************************)
\* what follows the last '/' of a link, the whole link when it has none
FinalSegment(link) ==
    LET slashes == {k \in 1..Len(link) : link[k] = "/"}
    IN  IF slashes = {} THEN link
        ELSE SubSeq(link, (CHOOSE k \in slashes : \A m \in slashes : m <= k) + 1,
                    Len(link))

Names(files) == {f.name : f \in files}

\* C1: after a run that completes with no failure, the archive holds exactly
\* one file per processed entry, named by the final segment of the entry's
\* selected image link.
C1_OneFilePerEntry ==
    (pc = "done" /\ ~dropped) =>
        /\ Cardinality(archive.files) = nSaved
        /\ Names(archive.files) = {FinalSegment(link) : link \in wrote}

\* C4: page listings are fetched for 1, 2, ... in that order; at most one
\* entry is between its construction and the end of its save; an entry is
\* downloaded, then labeled, then saved; the entry in hand is the next of the
\* listing; and a listing is fetched only when every entry listed before has
\* been through save_image.
C4_StrictlySequential ==
    /\ fetched = [k \in 1..Len(fetched) |-> k]
    /\ Len(fetched) <= NUM_OF_PAGES
    /\ nSaved <= nLabeled
    /\ nLabeled <= nDownloaded
    /\ nDownloaded <= nConstructed
    /\ nConstructed <= nSaved + 1
    /\ nConstructed <= nListed
    /\ (pc = "fetch_page") => (i = Len(fetched) + 1 /\ nSaved = nListed)
    /\ (pc = "download") => (nDownloaded = nSaved /\ nConstructed = nSaved + 1)
    /\ (pc \in {"download", "label", "save"}) =>
           /\ j = nConstructed - (nListed - Len(data))
           /\ painting.artist = data[j].artistName
           /\ painting.title = data[j].title

\* page 1 listed two entries, page 2 one, and all three have been saved
C4_Witness ==
    /\ Len(fetched) = 2
    /\ nListed = 3
    /\ Len(data) = 1
    /\ nSaved = 3
    /\ Cardinality(folder.files) = 2

FetchFailures == {"urlopen_page", "json", "urlopen_image", "imdecode"}

\* imdecode gave None for the bytes fetched: download_image has returned
\* with self.image = None
DecodeFailed == pc = "label" /\ ~painting.image.present

\* C5: once a page listing or an image could not be fetched or decoded, the
\* run is over: no further entry is constructed, downloaded, labeled or saved,
\* no further page is fetched, nothing more is written and no archive is made.
C5_FetchFailureAborts ==
    /\ [](failure \in FetchFailures => (pc = "aborted" /\ ~archive.exists))
    /\ [][(failure \in FetchFailures \/ DecodeFailed) =>
            /\ pc' = "aborted"
            /\ ~archive'.exists
            /\ fetched' = fetched
            /\ nConstructed' = nConstructed
            /\ nDownloaded' = nDownloaded
            /\ nLabeled' = nLabeled
            /\ nSaved' = nSaved
            /\ folder' = folder]_vars

\* the image of the first entry of page 2 could not be fetched, after one
\* entry of page 1 was saved; a second entry of page 2 is left unprocessed
C5_Witness ==
    /\ failure = "urlopen_image"
    /\ pc = "aborted"
    /\ Len(fetched) = 2
    /\ Len(data) = 2
    /\ j = 1
    /\ nSaved = 1

\* C6: a run never completes when a write to the container failed.
C6_WriteFailureAborts ==
    (pc = "done") => ~dropped

FailuresAfterMkdir ==
    {"urlopen_page", "json", "KeyError", "urlopen_image", "imdecode", "label", "imwrite"}

\* C10: a run ended by a failure after the container was created leaves the
\* container on disk, with a file for exactly the names written before the
\* failure, and no archive.
C10_AbortLeavesContainer ==
    (failure \in FailuresAfterMkdir) =>
        /\ pc = "aborted"
        /\ folder.exists
        /\ Names(folder.files) = {FinalSegment(link) : link \in wrote}
        /\ ~archive.exists

\* labeling failed for want of a decoded picture, after two files were written
C10_Witness ==
    /\ failure = "label"
    /\ pc = "aborted"
    /\ folder.exists
    /\ Cardinality(folder.files) = 2

====
